---- MODULE Spec2Model ----
(***************************************************************************)
(* Model of the lint rule typescript/class-literal-property-style          *)
(* (crates/oxc_linter/src/rules/typescript/class_literal_property_style.rs) *)
(*                                                                         *)
(* Option<T> values are modelled as sequences: <<>> is None, <<x>> is      *)
(* Some(x).  A Vec is a sequence.                                          *)
(***************************************************************************)
EXTENDS Integers, Sequences, FiniteSets, TLC

VARIABLES config, style, class_body, node, parent, diagnostics,
          lit_expr, verdict, pc

vars == <<config, style, class_body, node, parent, diagnostics,
          lit_expr, verdict, pc>>

(***************************************************************************)
(* Bounds of the model                                                     *)
(***************************************************************************)
MaxSubst == 2
MaxArrayLen == 2
MaxStmts == 2
MaxMembers == 2
MaxDepth == 1

None == <<>>
Some(x) == <<x>>

SeqsUpTo(S, n) == UNION {[1..k -> S] : k \in 0..n}

(***************************************************************************)
(* Expressions                                                             *)
(***************************************************************************)
LiteralTypes == {"BooleanLiteral", "NullLiteral", "NumericLiteral",
                 "BigIntLiteral", "RegExpLiteral", "StringLiteral"}

OtherTypes == {"ArrayExpression", "ObjectExpression", "Identifier",
               "CallExpression", "ArrowFunctionExpression"}

QuasiTexts == {"", "a"}
SubExprs == {[type |-> "Identifier"], [type |-> "StringLiteral"]}
Tags == {"gql", "styled.button"}

\* A template with n substitutions has n + 1 static segments (quasis).
Templates(n) ==
    {[type |-> "TemplateLiteral", quasis |-> q, expressions |-> e] :
        q \in [1..(n + 1) -> QuasiTexts], e \in [1..n -> SubExprs]}

TemplateLiterals == UNION {Templates(n) : n \in 0..MaxSubst}

TaggedTemplates ==
    {[type |-> "TaggedTemplateExpression", tag |-> t, quasi |-> q] :
        t \in Tags, q \in TemplateLiterals}

Expressions ==
    {[type |-> t] : t \in LiteralTypes \cup OtherTypes}
        \cup TemplateLiterals \cup TaggedTemplates

\* Expression::is_literal
is_literal(expression) == expression.type \in LiteralTypes

\* variant: the TaggedTemplateExpression arm is missing
get_is_supported_literal_no_tagged(expression) ==
    IF is_literal(expression) THEN TRUE
    ELSE CASE expression.type = "TemplateLiteral" ->
                Len(expression.quasis) = 1
           [] OTHER -> FALSE

\* fn get_is_supported_literal(expression)
get_is_supported_literal(expression) ==
    IF is_literal(expression) THEN TRUE
    ELSE CASE expression.type = "TaggedTemplateExpression" ->
                Len(expression.quasi.quasis) = 1
           [] expression.type = "TemplateLiteral" ->
                Len(expression.quasis) = 1
           [] OTHER -> FALSE

(***************************************************************************)
(* Configuration values (serde_json::Value)                                *)
(***************************************************************************)
ConfigStrings == {"getters", "fields", "Getters", "getter", ""}

Scalars ==
    {[type |-> "Null"], [type |-> "Bool"], [type |-> "Number"],
     [type |-> "Object"]}
        \cup {[type |-> "String", v |-> s] : s \in ConfigStrings}

ArrayElements == Scalars \cup {[type |-> "Array", v |-> <<[type |-> "String", v |-> "getters"]>>]}

ConfigValues ==
    Scalars \cup {[type |-> "Array", v |-> a] : a \in SeqsUpTo(ArrayElements, MaxArrayLen)}

\* serde_json::Value::get(index): Some only for an array that has the index
value_get(value, i) ==
    IF value.type = "Array" /\ i + 1 <= Len(value.v) THEN Some(value.v[i + 1])
    ELSE None

\* serde_json::Value::as_str
as_str(value) == IF value.type = "String" THEN Some(value.v) ELSE None

\* Style::default
StyleDefault == "Fields"

\* variant: a bare string is read like a one-element array
from_configuration_top_level(value) ==
    LET first == IF value.type = "String" THEN Some(value) ELSE value_get(value, 0)
        str == IF first = None THEN None ELSE as_str(first[1])
    IN  IF str = None THEN StyleDefault
        ELSE IF str[1] = "getters" THEN "Getters" ELSE "Fields"

\* fn from_configuration(value)
from_configuration(value) ==
    LET first == value_get(value, 0)
        str == IF first = None THEN None ELSE as_str(first[1])
    IN  IF str = None THEN StyleDefault
        ELSE IF str[1] = "getters" THEN "Getters" ELSE "Fields"

(***************************************************************************)
(* Syntax tree: property keys, statements, class elements                  *)
(***************************************************************************)
NoSpan == [start |-> 0, end |-> 0]

\* `p1`, `'p1'` / `['p1']`, `[p1]`
ResolvableKeys ==
    {[type |-> t, text |-> n, span |-> NoSpan] :
        t \in {"StaticIdentifier", "StringLiteral", "Identifier"}, n \in {"p1"}}
        \cup {[type |-> "StaticIdentifier", text |-> "p2", span |-> NoSpan]}

\* `[myValue()]`: a computed key that is no identifier reference
UnresolvableKey == [type |-> "CallExpression", text |-> "", span |-> NoSpan]

Keys == ResolvableKeys \cup {UnresolvableKey}

\* PropertyKey::name
name(key) ==
    IF key.type \in {"StaticIdentifier", "StringLiteral", "Identifier"}
    THEN Some(key.text) ELSE None

\* Expressions that occur as return arguments and field initializers
MemberExprs ==
    {[type |-> "StringLiteral"], [type |-> "ArrayExpression"],
     [type |-> "ObjectExpression"]}

\* `${x}a`
InterpolatedTemplate ==
    [type |-> "TemplateLiteral", quasis |-> <<"", "a">>,
     expressions |-> <<[type |-> "Identifier"]>>]

ReturnArgs ==
    {[type |-> "StringLiteral"], [type |-> "ArrayExpression"], InterpolatedTemplate}

Statements ==
    {[type |-> "ReturnStatement", argument |-> None],
     [type |-> "IfStatement"]}
        \cup {[type |-> "ReturnStatement", argument |-> Some(e)] : e \in ReturnArgs}

\* Option<FunctionBody>
FunctionBodies ==
    {None} \cup {Some([statements |-> s]) : s \in SeqsUpTo(Statements, MaxStmts)}

MethodDefinition(kind, key, body) ==
    [type |-> "MethodDefinition", kind |-> kind, key |-> key,
     value |-> [body |-> body], span |-> NoSpan]

Getters == {MethodDefinition("Get", k, b) : k \in Keys, b \in FunctionBodies}

EmptyBody == Some([statements |-> <<>>])

Setters == {MethodDefinition("Set", k, EmptyBody) : k \in Keys}

P1 == [type |-> "StaticIdentifier", text |-> "p1", span |-> NoSpan]

\* set accessors and ordinary methods with the bodies the get accessors have
NonGetters ==
    {MethodDefinition(kind, P1, b) : kind \in {"Set", "Method"}, b \in FunctionBodies}

\* `this.p1 = v` (StaticMemberExpression) or `this['p1'] = v` (ComputedMemberExpression)
AssignThis(form, n) ==
    [type |-> "ExpressionStatement",
     expression |-> [type |-> "AssignmentExpression",
                     left |-> [type |-> form, object |-> "ThisExpression",
                               property |-> n]]]

RECURSIVE Nest(_, _)
\* the statement wrapped in d nested function declarations
Nest(statement, d) ==
    IF d = 0 THEN statement
    ELSE [type |-> "FunctionDeclaration",
          body |-> [statements |-> <<Nest(statement, d - 1)>>]]

MemberForms == {"StaticMemberExpression", "ComputedMemberExpression"}

MethodKey(kind) ==
    [type |-> "StaticIdentifier",
     text |-> IF kind = "Constructor" THEN "constructor" ELSE "m",
     span |-> NoSpan]

\* constructors and instance methods that assign this.p1 at some depth
Methods ==
    {MethodDefinition(kind, MethodKey(kind),
                      Some([statements |-> <<Nest(AssignThis(f, "p1"), d)>>])) :
        kind \in {"Constructor", "Method"}, f \in MemberForms, d \in 0..MaxDepth}

Accessibilities == {None, Some("Private")}

PropertyDefinition(key, readonly, declare, static, accessibility, value) ==
    [type |-> "PropertyDefinition", key |-> key, readonly |-> readonly,
     declare |-> declare, static |-> static, accessibility |-> accessibility,
     value |-> value, span |-> NoSpan]

Initializers == {None} \cup {Some(e) : e \in MemberExprs}

Fields(keys, statics, accessibilities) ==
    {PropertyDefinition(k, r, d, s, a, v) :
        k \in keys, r \in BOOLEAN, d \in BOOLEAN, s \in statics,
        a \in accessibilities, v \in Initializers}

\* Members of the source text get their spans from their position.
WithSpans(body) ==
    [i \in DOMAIN body |->
        [body[i] EXCEPT !.span = [start |-> 100 * i, end |-> 100 * i + 99],
                        !.key.span = [start |-> 100 * i + 10, end |-> 100 * i + 19]]]

\* the class bodies that hold member n at position i among members of S
ClassBodiesWith(n, S) ==
    UNION {{<<i, WithSpans(SubSeq(s, 1, i - 1) \o <<n>> \o SubSeq(s, i, Len(s)))>> :
                i \in 1..(Len(s) + 1)} : s \in SeqsUpTo(S, MaxMembers - 1)}

(***************************************************************************)
(* The rule                                                                *)
(***************************************************************************)
\* fn prefer_field_style_diagnostic(span)
prefer_field_style_diagnostic(span) ==
    [message |-> "Literals should be exposed using readonly fields.",
     label |-> span]

\* ClassElement::method_definition_kind
method_definition_kind(element) ==
    IF element.type = "MethodDefinition" THEN Some(element.kind) ELSE None

\* variant: the last statement is taken
first_last(statements) ==
    IF Len(statements) = 0 THEN None ELSE Some(statements[Len(statements)])

\* body.statements.first()
first(statements) ==
    IF Len(statements) = 0 THEN None ELSE Some(statements[1])

\* variant: all() in place of any()
has_duplicate_key_setter_all(method_definition, class_body_node) ==
    \A i \in DOMAIN class_body_node.body :
        LET element == class_body_node.body[i]
        IN  IF method_definition_kind(element) # Some("Set") THEN FALSE
            ELSE name(method_definition.key) = name(method_definition.key)

\* class_body.body.iter().any(|element| ...), with name = method_definition.key.name()
has_duplicate_key_setter(method_definition, class_body_node) ==
    \E i \in DOMAIN class_body_node.body :
        LET element == class_body_node.body[i]
        IN  IF method_definition_kind(element) # Some("Set") THEN FALSE
            ELSE name(method_definition.key) = name(method_definition.key)

\* variant: a visit without an enclosing class body returns early
RunFields_needs_parent(n, par) ==
    IF n.type # "MethodDefinition" THEN <<>>
    ELSE IF n.kind # "Get" THEN <<>>
    ELSE IF n.value.body = None THEN <<>>
    ELSE LET body == n.value.body[1]
             stmt == first(body.statements)
         IN  IF stmt = None THEN <<>>
             ELSE IF stmt[1].type # "ReturnStatement" THEN <<>>
             ELSE IF stmt[1].argument = None THEN <<>>
             ELSE IF ~get_is_supported_literal(stmt[1].argument[1]) THEN <<>>
             ELSE IF par = None THEN <<>>
             ELSE IF par[1].type # "ClassBody" THEN <<>>
             ELSE IF has_duplicate_key_setter(n, par[1]) THEN <<>>
             ELSE <<prefer_field_style_diagnostic(n.span)>>

\* the Style::Fields arm of run; the result is the sequence of diagnostics
\* handed to ctx.diagnostic during the visit
RunFields(n, par) ==
    IF n.type # "MethodDefinition" THEN <<>>
    ELSE IF n.kind # "Get" THEN <<>>
    ELSE IF n.value.body = None THEN <<>>
    ELSE LET body == n.value.body[1]
             stmt == first(body.statements)
         IN  IF stmt = None THEN <<>>
             ELSE IF stmt[1].type # "ReturnStatement" THEN <<>>
             ELSE IF stmt[1].argument = None THEN <<>>
             ELSE IF ~get_is_supported_literal(stmt[1].argument[1]) THEN <<>>
             ELSE IF /\ par # None
                     /\ par[1].type = "ClassBody"
                     /\ has_duplicate_key_setter(n, par[1])
                  THEN <<>>
             ELSE <<prefer_field_style_diagnostic(n.span)>>

\* variant: the arm reports every readonly field that has an initializer
RunGetters_any_initializer(n, par) ==
    IF n.type # "PropertyDefinition" THEN <<>>
    ELSE IF ~n.readonly \/ n.declare THEN <<>>
    ELSE IF n.value = None THEN <<>>
    ELSE <<prefer_field_style_diagnostic(n.span)>>

\* variant: the arm reports every readonly literal field, assigned or not
RunGetters_no_scan(n, par) ==
    IF n.type # "PropertyDefinition" THEN <<>>
    ELSE IF ~n.readonly \/ n.declare THEN <<>>
    ELSE IF n.value = None THEN <<>>
    ELSE IF ~get_is_supported_literal(n.value[1]) THEN <<>>
    ELSE <<prefer_field_style_diagnostic(n.span)>>

\* the Style::Getters arm of run: it is unfinished and holds no call of
\* ctx.diagnostic, so a visit in Getters mode reports nothing
RunGetters(n, par) == <<>>

\* variant: the configured style is not consulted
run_ignores_style(s, n, par) == RunFields(n, par)

\* fn run(&self, node, ctx)
run(s, n, par) ==
    IF s = "Getters" THEN RunGetters(n, par) ELSE RunFields(n, par)

(***************************************************************************)
(* State machine                                                           *)
(***************************************************************************)
\* ctx.nodes().parent_node(node.id()): no node, a node that is no class
\* body, or the enclosing class body
ParentLookups ==
    {None, Some([type |-> "Program"]),
     Some([type |-> "ClassBody", body |-> class_body])}

LintConfigs ==
    {[type |-> "Null"],
     [type |-> "Array", v |-> <<[type |-> "String", v |-> "fields"]>>],
     [type |-> "Array", v |-> <<[type |-> "String", v |-> "getters"]>>]}

\* the rule is default-constructed; the tree holds member n in a class body
\* whose other members come from S
InitTree(N, S) ==
    /\ \E n \in N : \E c \in ClassBodiesWith(n, S) :
          /\ class_body = c[2]
          /\ node = Some(c[2][c[1]])
    /\ config = None
    /\ style = StyleDefault
    /\ parent = None
    /\ diagnostics = <<>>
    /\ lit_expr = None
    /\ verdict = FALSE
    /\ pc = "new"

InitEmpty ==
    /\ class_body = <<>>
    /\ node = None
    /\ config = None
    /\ style = StyleDefault
    /\ parent = None
    /\ diagnostics = <<>>
    /\ lit_expr = None
    /\ verdict = FALSE
    /\ pc = "new"

FromConfiguration(value) ==
    /\ pc = "new"
    /\ config' = Some(value)
    /\ style' = from_configuration(value)
    /\ pc' = "configured"
    /\ UNCHANGED <<class_body, node, parent, diagnostics, lit_expr, verdict>>

\* one visit of the node, the parent lookup answering par
Run(par) ==
    /\ pc \in {"configured", "visited"}
    /\ node # None
    /\ parent' = par
    /\ diagnostics' = run(style, node[1], par)
    /\ pc' = "visited"
    /\ UNCHANGED <<config, style, class_body, node, lit_expr, verdict>>

Classify(expression) ==
    /\ lit_expr' = Some(expression)
    /\ verdict' = get_is_supported_literal(expression)
    /\ UNCHANGED <<config, style, class_body, node, parent, diagnostics, pc>>

Configure == \E value \in LintConfigs : FromConfiguration(value)

Visit == \E par \in ParentLookups : Run(par)

\* accessors (and a few other members) among sibling setters
AccessorNodes ==
    Getters \cup Setters \cup NonGetters \cup Methods
        \cup Fields({P1}, {FALSE}, {None})

Init == InitTree(AccessorNodes, Setters)

Next == Configure \/ Visit

Spec == Init /\ [][Next]_vars

\* fields among sibling constructors and methods
InitGetters == InitTree(Fields(Keys, BOOLEAN, Accessibilities), Methods)

SpecGetters == InitGetters /\ [][Next]_vars

\* the configuration resolver alone
ConfigureAny == \E value \in ConfigValues : FromConfiguration(value)

SpecConfig == InitEmpty /\ [][ConfigureAny]_vars

\* the literal classifier alone
ClassifyAny == \E expression \in Expressions : Classify(expression)

SpecLit == InitEmpty /\ [][ClassifyAny]_vars

(***************************************************************************)
(* Vocabulary of the properties                                            *)
(***************************************************************************)
Visited == pc = "visited"

TheNode == node[1]

InClassBody == parent = Some([type |-> "ClassBody", body |-> class_body])

IsGetter(n) == n.type = "MethodDefinition" /\ n.kind = "Get"

IsField(n) == n.type = "PropertyDefinition"

IsTemplate(e) == e.type \in {"TemplateLiteral", "TaggedTemplateExpression"}

\* number of embedded substitution expressions of a template
Substitutions(e) ==
    IF e.type = "TaggedTemplateExpression" THEN Len(e.quasi.expressions)
    ELSE Len(e.expressions)

\* an atomic literal, or a template without substitutions
Supported(e) ==
    \/ e.type \in LiteralTypes
    \/ IsTemplate(e) /\ Substitutions(e) = 0

\* both keys resolve, and to the same name
SameProperty(k1, k2) == name(k1) # None /\ name(k1) = name(k2)

HasStatements(n) == n.value.body # None /\ Len(n.value.body[1].statements) > 0

StatementsOf(n) == n.value.body[1].statements

IsReturnWithArgument(statement) ==
    statement.type = "ReturnStatement" /\ statement.argument # None

\* the body is exactly `return <supported literal>;`
SingleLiteralReturn(n) ==
    /\ HasStatements(n)
    /\ Len(StatementsOf(n)) = 1
    /\ IsReturnWithArgument(StatementsOf(n)[1])
    /\ Supported(StatementsOf(n)[1].argument[1])

\* the class body holds a set accessor for the property of member n
HasSiblingSetter(n) ==
    \E i \in DOMAIN class_body :
        /\ class_body[i].type = "MethodDefinition"
        /\ class_body[i].kind = "Set"
        /\ SameProperty(class_body[i].key, n.key)

\* the class body holds no set accessor at all
NoSetter ==
    \A i \in DOMAIN class_body :
        ~(class_body[i].type = "MethodDefinition" /\ class_body[i].kind = "Set")

RECURSIVE AssignsThis(_, _)
\* some statement, at any depth of nested functions, assigns this.nm or this['nm']
AssignsThis(statements, nm) ==
    \E i \in DOMAIN statements :
        LET st == statements[i]
        IN  \/ /\ st.type = "ExpressionStatement"
               /\ st.expression.type = "AssignmentExpression"
               /\ st.expression.left.object = "ThisExpression"
               /\ st.expression.left.property = nm
            \/ /\ st.type = "FunctionDeclaration"
               /\ AssignsThis(st.body.statements, nm)

\* a constructor or an instance method of the class assigns the property of member n
ClassAssigns(n) ==
    /\ name(n.key) # None
    /\ \E i \in DOMAIN class_body :
          /\ class_body[i].type = "MethodDefinition"
          /\ class_body[i].kind \in {"Constructor", "Method"}
          /\ class_body[i].value.body # None
          /\ AssignsThis(class_body[i].value.body[1].statements, name(n.key)[1])

ReadonlyLiteralField(n) ==
    /\ IsField(n)
    /\ n.readonly
    /\ n.value # None
    /\ Supported(n.value[1])

FieldsDiagnostic(n) ==
    [message |-> "Literals should be exposed using readonly fields.",
     label |-> n.span]

(***************************************************************************)
(* Properties                                                              *)
(***************************************************************************)

\* C1: in Fields mode a get accessor whose body is one return of a supported
\* literal, and whose class body holds no set accessor of the same property,
\* gets exactly one violation, at the accessor's span, with the message
\* "Literals should be exposed using readonly fields."
C1_UnpairedLiteralGetterFlagged ==
    (/\ Visited
     /\ style = "Fields"
     /\ IsGetter(TheNode)
     /\ SingleLiteralReturn(TheNode)
     /\ InClassBody
     /\ ~HasSiblingSetter(TheNode))
        => diagnostics = <<FieldsDiagnostic(TheNode)>>

C3_PairedGetterNeverFlagged ==
    (/\ Visited
     /\ style = "Fields"
     /\ IsGetter(TheNode)
     /\ InClassBody
     /\ HasSiblingSetter(TheNode))
        => diagnostics = <<>>

C3_Witness ==
    /\ Visited
    /\ style = "Fields"
    /\ IsGetter(TheNode)
    /\ SingleLiteralReturn(TheNode)
    /\ TheNode.key.type = "StringLiteral"
    /\ InClassBody
    /\ \E i \in DOMAIN class_body :
          /\ class_body[i].type = "MethodDefinition"
          /\ class_body[i].kind = "Set"
          /\ class_body[i].key.type = "Identifier"
          /\ class_body[i].span.start > TheNode.span.start
          /\ SameProperty(class_body[i].key, TheNode.key)
    /\ diagnostics = <<>>

\* C4: in Getters mode a readonly, non-declare field with a supported literal
\* initializer, in a class without an assignment to it through this, gets
\* exactly one violation, at the span of the field.
C4_ReadonlyLiteralFieldFlagged ==
    (/\ Visited
     /\ style = "Getters"
     /\ ReadonlyLiteralField(TheNode)
     /\ ~TheNode.declare
     /\ InClassBody
     /\ ~ClassAssigns(TheNode))
        => /\ Len(diagnostics) = 1
           /\ diagnostics[1].label = TheNode.span

C6_TemplateSupportedIffNoSubstitution ==
    (lit_expr # None /\ IsTemplate(lit_expr[1]))
        => (verdict <=> Substitutions(lit_expr[1]) = 0)

C6_Witness ==
    /\ lit_expr # None
    /\ lit_expr[1].type = "TaggedTemplateExpression"
    /\ Substitutions(lit_expr[1]) = 0
    /\ verdict

\* C7: configuration construction always yields a style, and yields Getters
\* exactly when the value is an array whose first element is the string
\* "getters"; every other value yields Fields.
C7_GettersIffFirstElementGetters ==
    pc = "configured"
        => /\ style \in {"Fields", "Getters"}
           /\ (style = "Getters") <=>
                 (/\ config[1].type = "Array"
                  /\ Len(config[1].v) >= 1
                  /\ config[1].v[1] = [type |-> "String", v |-> "getters"])

C7_Witness ==
    /\ pc = "configured"
    /\ config[1].type = "Array"
    /\ Len(config[1].v) = 2
    /\ config[1].v[1] = [type |-> "String", v |-> "getters"]
    /\ config[1].v[2] = [type |-> "String", v |-> "fields"]
    /\ style = "Getters"

\* C8: in Getters mode a readonly field whose initializer is an array or an
\* object literal gets no violation.
C8_ArrayObjectFieldNeverFlagged ==
    (/\ Visited
     /\ style = "Getters"
     /\ IsField(TheNode)
     /\ TheNode.readonly
     /\ TheNode.value # None
     /\ TheNode.value[1].type \in {"ArrayExpression", "ObjectExpression"})
        => diagnostics = <<>>

C8_Witness ==
    /\ Visited
    /\ style = "Getters"
    /\ IsField(TheNode)
    /\ TheNode.readonly
    /\ ~TheNode.declare
    /\ TheNode.value = Some([type |-> "ArrayExpression"])
    /\ InClassBody
    /\ ~ClassAssigns(TheNode)
    /\ diagnostics = <<>>

\* C9: a visit reports at most once; in Fields mode a field, a set accessor
\* or an ordinary method is never reported, in Getters mode a get accessor
\* is never reported.
C9_OnlyTargetedKindFlagged ==
    Visited
        => /\ Len(diagnostics) <= 1
           /\ (style = "Fields" /\ ~IsGetter(TheNode)) => diagnostics = <<>>
           /\ (style = "Getters" /\ IsGetter(TheNode)) => diagnostics = <<>>

C9_Witness ==
    /\ Visited
    /\ style = "Getters"
    /\ IsGetter(TheNode)
    /\ SingleLiteralReturn(TheNode)
    /\ InClassBody
    /\ ~HasSiblingSetter(TheNode)
    /\ diagnostics = <<>>

\* C10: in Fields mode an eligible get accessor whose parent lookup yields
\* no node, or a node that is no class body, is still reported: the scan
\* counts as having found no sibling setter.
C10_MissingParentStillFlagged ==
    (/\ Visited
     /\ style = "Fields"
     /\ IsGetter(TheNode)
     /\ SingleLiteralReturn(TheNode)
     /\ ~InClassBody)
        => diagnostics = <<FieldsDiagnostic(TheNode)>>

C10_Witness ==
    /\ Visited
    /\ style = "Fields"
    /\ IsGetter(TheNode)
    /\ SingleLiteralReturn(TheNode)
    /\ parent = None
    /\ HasSiblingSetter(TheNode)
    /\ diagnostics = <<FieldsDiagnostic(TheNode)>>

====
